---- MODULE Spec2Model ----
(***************************************************************************)
(* FIFO lot matching and jeet detection of analyze_wallet_trades           *)
(* (src/jeet_tracker.py, lines 71-129).                                    *)
(*                                                                         *)
(* Quantities are whole token units, prices whole USD per unit and         *)
(* timestamps whole seconds (blockTime is an integer number of seconds).   *)
(* hold_min of the source is hold seconds / 60, so `hold_min < 5` is       *)
(* modelled as `hold_sec < HOLD_TIME_MIN * 60`.                            *)
(*                                                                         *)
(* Spec follows one token over all timestamps and prices; SpecTokens       *)
(* follows two tokens over two timestamps and one price.                   *)
(***************************************************************************)
EXTENDS Integers, Sequences, FiniteSets

\* ------------------------------------------------------------- constants
LOSS_THRESHOLD == 100
HOLD_TIME_MIN == 5

\* ---------------------------------------------------------------- bounds
\* Largest |amount_change| of one event.
MaxAmt == 3
\* Number of signatures the loop iterates over.
MaxEvents == 3

\* ---------------------------------------------------------------- inputs
\* Two mints that share their first 8 characters.
Mints == {"MintAAAA1", "MintAAAA2"}
OneMint == {"MintAAAA1"}
\* blockTime values (seconds): 300 s = 5 min apart, and one second more.
Times == {0, 300, 301}
TwoTimes == {0, 300}
\* get_token_price_coingecko results (USD per unit).
Prices == {1, 101}
OnePrice == {1}
\* post_amount - pre_amount
Amounts == (0 - MaxAmt) .. MaxAmt

VARIABLES
    buys,        \* mint -> queue of lots [amount, time, price]
    jeets,       \* the list that analyze_wallet_trades returns
    processed,   \* number of signatures the for loop has gone through
    ev,          \* the balance change last applied (the loop's locals)
    matched,     \* the slices of the while loop's iterations for ev
    acquired,    \* history: mint -> sum of its positive amount_change
    disposed,    \* history: mint -> sum of its |negative amount_change|
    overdrawn,   \* history: mint -> some prefix disposed more than acquired
    last_time    \* history: mint -> timestamp of the event last applied to
                 \* it (amount_change # 0), or -1

vars == <<buys, jeets, processed, ev, matched, acquired, disposed, overdrawn,
          last_time>>

\* mint[:8]
Prefix8(mint) == "MintAAAA"

NoEvent == [sig |-> 0, mint |-> "", amount_change |-> 0, timestamp |-> 0,
            price |-> 0]

Min(a, b) == IF a < b THEN a ELSE b

Abs(a) == IF a < 0 THEN 0 - a ELSE a

RECURSIVE SumAmounts(_)
SumAmounts(q) == IF q = <<>> THEN 0 ELSE Head(q).amount + SumAmounts(Tail(q))

RECURSIVE SumUsed(_)
SumUsed(s) == IF s = <<>> THEN 0 ELSE Head(s).amt_used + SumUsed(Tail(s))

\* --------------------------------------------------- the two branches
\* Mutant of IsAcquisition: a zero change also appends a lot.
IsAcquisitionOrZero(amount_change) == amount_change >= 0

\* if amount_change > 0
IsAcquisition(amount_change) == amount_change > 0

\* elif amount_change < 0
IsDisposal(amount_change) == amount_change < 0

\* Mutant of Key: one deque shared by every token.
KeyShared(mint) == "MintAAAA1"

\* The key of the token's deque in buys: buys[mint]
Key(mint) == mint

\* ------------------------------------------------------- the sell loop
\* Mutant of Front: the newest lot is matched first.
FrontNewest(q) == q[Len(q)]

\* buys[mint][0]
Front(q) == Head(q)

HoldSec(timestamp, buy_time) == timestamp - buy_time

AmtUsed(buy_amount, amount_sold, total_sold) ==
    Min(buy_amount, amount_sold - total_sold)

Loss(amt_used, buy_price, price) == amt_used * buy_price - amt_used * price

\* Mutant of IsJeet: a hold of exactly HOLD_TIME_MIN minutes passes.
IsJeetInclusive(loss, hold_sec) ==
    loss > LOSS_THRESHOLD /\ hold_sec <= HOLD_TIME_MIN * 60

\* if loss > LOSS_THRESHOLD and hold_min < HOLD_TIME_MIN
IsJeet(loss, hold_sec) ==
    loss > LOSS_THRESHOLD /\ hold_sec < HOLD_TIME_MIN * 60

\* Mutant of Consume: the lot is popped although part of it is left.
ConsumePops(q, amt_used) == Tail(q)

\* Mutant of Consume: the rest of a partly used lot goes to the tail.
ConsumeRequeues(q, amt_used) ==
    IF amt_used < Head(q).amount
      THEN Tail(q) \o <<[Head(q) EXCEPT !.amount = @ - amt_used]>>
      ELSE Tail(q)

\* The queue after one iteration that used amt_used of its head lot.
Consume(q, amt_used) ==
    IF amt_used < Head(q).amount
      THEN <<[Head(q) EXCEPT !.amount = @ - amt_used]>> \o Tail(q)
      ELSE Tail(q)

RECURSIVE SellLoop(_, _, _, _, _)
SellLoop(q, total_sold, amount_sold, timestamp, price) ==
    IF q # <<>> /\ total_sold < amount_sold
      THEN LET buy == Front(q)
               hold_sec == HoldSec(timestamp, buy.time)
               amt_used == AmtUsed(buy.amount, amount_sold, total_sold)
               loss == Loss(amt_used, buy.price, price)
               slice == [amt_used |-> amt_used, buy_time |-> buy.time,
                         buy_price |-> buy.price, hold_sec |-> hold_sec,
                         loss |-> loss, jeet |-> IsJeet(loss, hold_sec)]
               rest == SellLoop(Consume(q, amt_used), total_sold + amt_used,
                                amount_sold, timestamp, price)
           IN  [queue |-> rest.queue, slices |-> <<slice>> \o rest.slices,
                total_sold |-> rest.total_sold]
      ELSE [queue |-> q, slices |-> <<>>, total_sold |-> total_sold]

\* The jeets.append({...}) of the slices that pass the test, in order.
RECURSIVE JeetsOf(_, _, _, _)
JeetsOf(slices, mint, timestamp, sig) ==
    IF slices = <<>> THEN <<>>
    ELSE (IF Head(slices).jeet
            THEN <<[token |-> Prefix8(mint),
                    hold_sec |-> Head(slices).hold_sec,
                    loss_usd |-> Head(slices).loss,
                    date |-> timestamp,
                    tx_sig |-> sig]>>
            ELSE <<>>) \o JeetsOf(Tail(slices), mint, timestamp, sig)

\* ------------------------------------------------- bookkeeping (history)
Track(mint, amount_change, timestamp) ==
    LET a == acquired[mint] + (IF amount_change > 0 THEN amount_change ELSE 0)
        d == disposed[mint] + (IF amount_change < 0 THEN 0 - amount_change ELSE 0)
    IN  /\ acquired' = [acquired EXCEPT ![mint] = a]
        /\ disposed' = [disposed EXCEPT ![mint] = d]
        /\ overdrawn' = [overdrawn EXCEPT ![mint] = @ \/ d > a]
        /\ last_time' = [last_time EXCEPT ![mint] = timestamp]

\* Lines 97-100: the locals of the balance change being applied; sig is the
\* position of its signature in the list.

Event(mint, amount_change, timestamp, price) ==
    [sig |-> processed + 1, mint |-> mint, amount_change |-> amount_change,
     timestamp |-> timestamp, price |-> price]

\* The for loop moves on to the next signature of the list.
NextSignature ==
    /\ processed < MaxEvents
    /\ processed' = processed + 1

\* --------------------------------------------------------------- actions
Init ==
    /\ buys = [m \in Mints |-> <<>>]
    /\ jeets = <<>>
    /\ processed = 0
    /\ ev = NoEvent
    /\ matched = <<>>
    /\ acquired = [m \in Mints |-> 0]
    /\ disposed = [m \in Mints |-> 0]
    /\ overdrawn = [m \in Mints |-> FALSE]
    /\ last_time = [m \in Mints |-> 0 - 1]

\* amount_change > 0: buys[mint].append((amount_change, timestamp, price))
Acquire(mint, amount_change, timestamp, price) ==
    /\ NextSignature
    /\ IsAcquisition(amount_change)
    /\ buys' = [buys EXCEPT ![Key(mint)] =
                  Append(@, [amount |-> amount_change, time |-> timestamp,
                             price |-> price])]
    /\ ev' = Event(mint, amount_change, timestamp, price)
    /\ matched' = <<>>
    /\ Track(mint, amount_change, timestamp)
    /\ UNCHANGED jeets

\* amount_change < 0: the while loop over buys[mint]
Dispose(mint, amount_change, timestamp, price) ==
    /\ NextSignature
    /\ ~IsAcquisition(amount_change)
    /\ IsDisposal(amount_change)
    /\ LET r == SellLoop(buys[Key(mint)], 0, Abs(amount_change), timestamp,
                         price)
       IN  /\ buys' = [buys EXCEPT ![Key(mint)] = r.queue]
           /\ jeets' = jeets \o JeetsOf(r.slices, mint, timestamp,
                                        processed + 1)
           /\ matched' = r.slices
    /\ ev' = Event(mint, amount_change, timestamp, price)
    /\ Track(mint, amount_change, timestamp)

\* amount_change = 0: neither branch is taken
NoChange(mint, amount_change, timestamp, price) ==
    /\ NextSignature
    /\ ~IsAcquisition(amount_change)
    /\ ~IsDisposal(amount_change)
    /\ ev' = Event(mint, amount_change, timestamp, price)
    /\ matched' = <<>>
    /\ UNCHANGED <<buys, jeets, acquired, disposed, overdrawn, last_time>>

\* a signature older than the cutoff, without a transaction, or whose
\* transaction holds no token balance of the wallet: continue
SkipSignature ==
    /\ NextSignature
    /\ UNCHANGED <<buys, jeets, ev, matched, acquired, disposed, overdrawn,
                   last_time>>

\* One iteration of `for sig_info in signatures`, for one token and all
\* timestamps and prices.
Next ==
    \/ \E m \in OneMint, a \in Amounts, t \in Times, p \in Prices :
          Acquire(m, a, t, p)
    \/ \E m \in OneMint, a \in Amounts, t \in Times, p \in Prices :
          Dispose(m, a, t, p)
    \/ \E m \in OneMint, a \in Amounts, t \in Times, p \in Prices :
          NoChange(m, a, t, p)
    \/ SkipSignature

Spec == Init /\ [][Next]_vars

\* One iteration, for two tokens.
NextTokens ==
    \/ \E m \in Mints, a \in Amounts, t \in TwoTimes, p \in OnePrice :
          Acquire(m, a, t, p)
    \/ \E m \in Mints, a \in Amounts, t \in TwoTimes, p \in OnePrice :
          Dispose(m, a, t, p)
    \/ \E m \in Mints, a \in Amounts, t \in TwoTimes, p \in OnePrice :
          NoChange(m, a, t, p)
    \/ SkipSignature

SpecTokens == Init /\ [][NextTokens]_vars

\* ================================================================ claims

\* C1 -- Conservation: while no prefix of a token's events has disposed more
\* than it acquired, the remaining amounts of the lots in its queue sum to
\* A - D, the acquired total minus the disposed total.
C1_Conservation ==
    \A m \in Mints :
        ~overdrawn[m] => SumAmounts(buys[m]) = acquired[m] - disposed[m]

\* A disposal spanning two lots has left part of the second one.
C1_Witness ==
    /\ ev.amount_change < 0
    /\ Len(matched) = 2
    /\ ~overdrawn[ev.mint]
    /\ acquired[ev.mint] > disposed[ev.mint]
    /\ buys[ev.mint] # <<>>

\* C2 -- FIFO order: a disposal matches the lots of the token's queue from
\* the head in insertion order; every lot before the last one matched is
\* used up and removed, only the last one matched may be left in part, and
\* the lots behind it are untouched.
C2_FifoOrder ==
    [][(ev' # ev /\ ev'.amount_change < 0) =>
        LET q == buys[ev'.mint]
            s == matched'
            k == Len(s)
            n == Len(q)
        IN  /\ k <= n
            /\ \A i \in 1..k :
                  /\ s[i].buy_time = q[i].time
                  /\ s[i].buy_price = q[i].price
                  /\ s[i].amt_used > 0
                  /\ s[i].amt_used <= q[i].amount
            /\ \A i \in 1..(k - 1) : s[i].amt_used = q[i].amount
            /\ buys'[ev'.mint] =
                  IF k > 0 /\ s[k].amt_used < q[k].amount
                    THEN <<[q[k] EXCEPT !.amount = @ - s[k].amt_used]>>
                         \o SubSeq(q, k + 1, n)
                    ELSE SubSeq(q, k + 1, n)]_vars

\* Lots (2 @ 1) then (2 @ 101), a disposal of 3: 2 units at cost 1, then 1
\* unit at cost 101, and a single lot of 1 at cost 101 is left.
C2_Witness ==
    /\ ev.amount_change = 0 - 3
    /\ Len(matched) = 2
    /\ matched[1].amt_used = 2 /\ matched[1].buy_price = 1
    /\ matched[2].amt_used = 1 /\ matched[2].buy_price = 101
    /\ buys[ev.mint] = <<[amount |-> 1, time |-> matched[2].buy_time,
                          price |-> 101]>>

\* C3 -- for every disposal event the amounts matched against lots
\* (amt_used of each iteration) sum to the event's |amount_change|.
C3_MatchedSum ==
    ev.amount_change < 0 => SumUsed(matched) = Abs(ev.amount_change)

\* C4 -- Shortfall policy: when the queue holds less than the disposal, the
\* unmatched residual is matched against a synthetic lot with cost 0 and
\* hold 0: a last slice for the residual, whose P&L residual * sell_price
\* is no loss and which is no jeet.
C4_ShortfallSynthetic ==
    [][(/\ ev' # ev
        /\ ev'.amount_change < 0
        /\ SumAmounts(buys[ev'.mint]) < Abs(ev'.amount_change)) =>
        LET residual == Abs(ev'.amount_change) - SumAmounts(buys[ev'.mint])
            k == Len(matched')
        IN  /\ k > 0
            /\ matched'[k].amt_used = residual
            /\ matched'[k].buy_price = 0
            /\ matched'[k].hold_sec = 0
            /\ matched'[k].loss = 0 - residual * ev'.price
            /\ ~matched'[k].jeet]_vars

\* C5 (original) -- a matched slice is recorded as a jeet iff its P&L
\* amount * (sell_price - cost_price) is below -LOSS_THRESHOLD and its hold
\* is at most HOLD_TIME_MIN minutes.
C5_JeetRuleInclusive ==
    LET rule(s) ==
            /\ s.amt_used * (ev.price - s.buy_price) < 0 - LOSS_THRESHOLD
            /\ ev.timestamp - s.buy_time <= HOLD_TIME_MIN * 60
    IN  /\ \A i \in DOMAIN matched : matched[i].jeet <=> rule(matched[i])
        /\ Cardinality({j \in DOMAIN jeets : jeets[j].tx_sig = ev.sig})
             = Cardinality({i \in DOMAIN matched : rule(matched[i])})

\* C5 (amended) -- a matched slice is recorded as a jeet iff its P&L
\* amount * (sell_price - cost_price) is below -LOSS_THRESHOLD and its hold
\* is strictly less than HOLD_TIME_MIN minutes.
C5_JeetRuleStrict ==
    LET rule(s) ==
            /\ s.amt_used * (ev.price - s.buy_price) < 0 - LOSS_THRESHOLD
            /\ ev.timestamp - s.buy_time < HOLD_TIME_MIN * 60
    IN  /\ \A i \in DOMAIN matched : matched[i].jeet <=> rule(matched[i])
        /\ Cardinality({j \in DOMAIN jeets : jeets[j].tx_sig = ev.sig})
             = Cardinality({i \in DOMAIN matched : rule(matched[i])})

\* A disposal has recorded a jeet for one slice and none for another whose
\* loss is exactly LOSS_THRESHOLD.
C5_Witness ==
    /\ ev.amount_change < 0
    /\ jeets # <<>>
    /\ jeets[Len(jeets)].tx_sig = ev.sig
    /\ \E i \in DOMAIN matched : matched[i].jeet
    /\ \E i \in DOMAIN matched :
          matched[i].loss = LOSS_THRESHOLD /\ ~matched[i].jeet

\* C6 -- every matched slice, and every jeet recorded, has a hold duration
\* (disposal timestamp minus the lot's acquisition timestamp) >= 0.
C6_HoldNonNegative ==
    /\ \A i \in DOMAIN matched : matched[i].hold_sec >= 0
    /\ \A j \in DOMAIN jeets : jeets[j].hold_sec >= 0

\* C7 -- every lot in any token's queue has a remaining amount > 0: a lot
\* that a disposal uses up is removed in that step.
C7_LotsPositive ==
    \A m \in Mints : \A i \in DOMAIN buys[m] : buys[m][i].amount > 0

\* A disposal has used up the lots of its token exactly: none is left.
C7_Witness ==
    /\ ev.amount_change < 0
    /\ matched # <<>>
    /\ ~overdrawn[ev.mint]
    /\ acquired[ev.mint] = disposed[ev.mint]
    /\ buys[ev.mint] = <<>>

\* C8 -- an event with amount change 0, with a negative price, or with a
\* timestamp earlier than the previous event of its token is not applied:
\* queues and jeets stay as they are.
C8_InvalidRejected ==
    [][(/\ ev' # ev
        /\ \/ ev'.amount_change = 0
           \/ ev'.price < 0
           \/ /\ last_time[ev'.mint] >= 0
              /\ ev'.timestamp < last_time[ev'.mint]) =>
        UNCHANGED <<buys, jeets>>]_vars

\* C9 -- Partial consumption frame: a disposal of less than the head lot
\* leaves that lot at the head with its timestamp and unit cost, its amount
\* reduced by the disposed quantity, and leaves every other lot as it was.
C9_PartialFrame ==
    [][(/\ ev' # ev
        /\ ev'.amount_change < 0
        /\ buys[ev'.mint] # <<>>
        /\ Abs(ev'.amount_change) < Head(buys[ev'.mint]).amount) =>
        LET q == buys[ev'.mint]
        IN  /\ buys'[ev'.mint] =
                  <<[amount |-> Head(q).amount - Abs(ev'.amount_change),
                     time |-> Head(q).time,
                     price |-> Head(q).price]>> \o Tail(q)
            /\ \A y \in Mints \ {ev'.mint} : buys'[y] = buys[y]]_vars

\* Two acquisitions, then a disposal of part of the first lot: two lots are
\* left.
C9_Witness ==
    /\ processed = 3
    /\ ev.sig = 3
    /\ ev.amount_change < 0
    /\ Len(matched) = 1
    /\ Len(buys[ev.mint]) = 2
    /\ buys[ev.mint][1] # buys[ev.mint][2]

\* C10 -- Token independence: an event of token X leaves the queue of every
\* other token as it was, and the slices of a disposal of X are lots of X's
\* queue.
C10_TokenIndependence ==
    [][ev' # ev =>
        LET x == ev'.mint
        IN  /\ \A y \in Mints \ {x} : buys'[y] = buys[y]
            /\ Len(matched') <= Len(buys[x])
            /\ \A i \in DOMAIN matched' :
                  /\ matched'[i].buy_time = buys[x][i].time
                  /\ matched'[i].buy_price = buys[x][i].price
                  /\ matched'[i].amt_used <= buys[x][i].amount]_vars

\* Both tokens hold lots acquired at different times, and a disposal of one
\* has been matched.
C10_Witness ==
    /\ ev.amount_change < 0
    /\ matched # <<>>
    /\ \E y \in Mints \ {ev.mint} :
          /\ buys[y] # <<>>
          /\ buys[y][1].time # matched[1].buy_time
====
